---- MODULE Spec2Model ----
(***************************************************************************)
(* hdr-sucks: the transcode job of src/index.js as a state machine.        *)
(*                                                                         *)
(* One action per event handler of the program (a child process's "exit"   *)
(* or "data" listener, the completion of an awaited rm) taken together     *)
(* with the synchronous continuation of main() that the handler's          *)
(* resolve/reject triggers, up to the next await.  The external tools are  *)
(* black boxes: their exit code, their diagnostic text and whether a       *)
(* failing tool left its output file behind are chosen by \E.              *)
(***************************************************************************)
EXTENDS Integers, Sequences, FiniteSets, TLC

VARIABLES
    pc,          \* position of main(): the await it is suspended on, or a terminal state
    opts,        \* program.opts(): opus, time
    d,           \* the parsed ffprobe output (ProbeResult)
    paths,       \* the paths record of main(): temp, dv, plus, audio_temp
    names,       \* number of temp names generated so far by generate_temp_name
    files,       \* temp files that exist on disk
    created,     \* temp files that have ever been written during the run
    alive,       \* child processes that are running
    spawned,     \* every child process spawned so far, in spawn order
    exited,      \* exit code of every child process that has exited
    bufsOut,     \* run_ffprobe: number of stdout chunks pushed to bufsOut
    pre,         \* pre_hdr locals: position in the scan, done[], out
    post,        \* post_hdr locals: k, currentFile, newTemp
    ai,          \* index i of the opus loop of main()
    aud_tags,    \* aud_tags of main(): per tag set, the audio stream it was built from
    mkv_args,    \* the input part of mkv_args that mkvmerge was spawned with
    ci,          \* how many of the cleanup deletions have completed
    reported,    \* what err() printed, "none" if it was never called
    exitStatus,  \* completion status of the node process, NoStatus while it runs
    stageLog,    \* the stages main() has started, in order
    arg,         \* argument of the helper function under test (helper specifications)
    ret          \* what that call returned or threw, NoRet before the call

env  == <<d, files, created, exited, bufsOut>>
ctl  == <<pc, alive, spawned, paths, names, pre, post, ai, aud_tags, mkv_args, ci,
          reported, exitStatus, stageLog>>
vars == <<pc, opts, d, paths, names, files, created, alive, spawned, exited, bufsOut,
          pre, post, ai, aud_tags, mkv_args, ci, reported, exitStatus, stageLog, arg, ret>>

----------------------------------------------------------------------------
(* Bounds *)

MaxAudio == 1        \* most audio streams in d.streams enumerated
MaxSideData == 2     \* most side data records in the probe output enumerated
ProbeChunks == 1     \* stdout chunks ffprobe writes
MaxOpus == 2         \* most audio streams enumerated by the audio specification
MaxLen == 5          \* longest string given to parse_slash_number
MaxFieldLen == 3     \* longest field of a mastering display record
MaxFmtLen == 6       \* longest pix_fmt string
MaxTags == 2         \* most entries of stream.tags
Overrun == 2         \* progress lines written beyond a full rate window
MaxLines == 3        \* progress lines written in a run with free chunking
MaxPieces == 2       \* most lines or parts of lines in one stderr chunk
MaxArgsLen == 7      \* longest string given with -o

(* Values *)

MaxFrames == 1       \* -read_intervals "%+#1": ffprobe reads one packet, d.frames has at most one frame
NULL == 0            \* paths.dv / paths.plus before an extraction sets them
NoStatus == 0 - 1    \* the node process has not terminated
ExitCodes == {0, 1}  \* a child's exit code; 1 stands for every value with c !== 0 (null included)
Texts == {"", "msg"} \* Buffer.concat(bufsErr).toString().trim(): empty or not

Kinds == {"md", "cll", "dv", "plus"}   \* the four side_data_type strings pre_hdr looks for
PreSteps == <<"md", "cll", "dv", "plus">>
\* mutant of PostKeys: the plus entry of paths comes before the dv entry
PostKeys_PlusFirst == <<"plus", "dv">>

PostKeys == <<"dv", "plus">>           \* the entries of paths post_hdr acts on, in key order

Stages == <<"probe", "build-video-args", "extract-hdr", "transcode-video",
            "inject-hdr", "transcode-audio", "remux", "cleanup">>

----------------------------------------------------------------------------
(* The child processes.  A process is named by the tool it runs and, for   *)
(* the opus loop, by the loop index.                                       *)

Proc(t) == [t |-> t, i |-> 0]
OpusProc(i) == [t |-> "ffmpeg_opus", i |-> i]

\* the stream-copy producer and the side tool of ff_xtract, per metadata kind
XtractProducer(kind) == Proc(IF kind = "dv" THEN "ffmpeg_copy_dv" ELSE "ffmpeg_copy_plus")
XtractTool(kind) == Proc(IF kind = "dv" THEN "dovi_extract" ELSE "hdr10plus_extract")
InjectTool(kind) == Proc(IF kind = "dv" THEN "dovi_inject" ELSE "hdr10plus_inject")

\* processes whose stdout is piped into another process and whose exit nobody listens to
Producers == {Proc("ffmpeg_decode"), XtractProducer("dv"), XtractProducer("plus")}

\* the stage of main() that spawns a process, as an index into Stages
StageOf(p) ==
    CASE p.t = "ffprobe" -> 1
      [] p.t \in {"ffmpeg_copy_dv", "dovi_extract", "ffmpeg_copy_plus", "hdr10plus_extract"} -> 3
      [] p.t \in {"ffmpeg_decode", "x265"} -> 4
      [] p.t \in {"dovi_inject", "hdr10plus_inject"} -> 5
      [] p.t = "ffmpeg_opus" -> 6
      [] p.t = "mkvmerge" -> 7

Range(s) == {s[i] : i \in DOMAIN s}
HasExited(p) == \E x \in exited : x.p = p
ExitedWith(p, c) == [p |-> p, c |-> c] \in exited

----------------------------------------------------------------------------
(* Inputs *)

\* program.opts(): --opus given or not, and -t absent ("none") or given with
\* a value that is not a number ("bad")
Options == [opus : BOOLEAN, time : {"none", "bad"}]

\* d.streams as the codec_type of each descriptor: nothing, or up to
\* MaxAudio audio streams with or without a video stream before or after them
Audio(k) == [i \in 1..k |-> "audio"]
StreamListsUpTo(n) ==
    {Audio(k) : k \in 0..n}
        \cup {<<"video">> \o Audio(k) : k \in 0..n}
        \cup {Audio(k) \o <<"video">> : k \in 1..n}
StreamLists == StreamListsUpTo(MaxAudio)

\* what JSON.parse of a complete, well-formed ffprobe output can give:
\*   streams   codec_type of each stream descriptor, in order
\*   nframes   d.frames.length
\*   frame     media_type of d.frames[0], the frame handed to pre_hdr: ffprobe
\*             is run without -select_streams, so the one packet it reads
\*             belongs to whichever stream comes first in the file
\*   yuv       whether the video stream's pix_fmt contains "yuv"
\*   sd        side_data_list kinds of <<the video stream, d.frames[0]>>
\*   mdok      whether the mastering display record of <<stream, frame>> has
\*             ten fields that parse as numbers
AllProbeOutputs ==
    [streams : StreamLists,
     nframes : 0..MaxFrames,
     frame   : {"none", "video", "audio"},
     yuv     : BOOLEAN,
     sd      : [1..2 -> SUBSET Kinds],
     mdok    : [1..2 -> BOOLEAN]]

\* d.frames[0] is a frame of one of the streams
FrameOfAStream(dd) ==
    /\ dd.nframes = 0 <=> dd.frame = "none"
    /\ dd.nframes > 0 => \E i \in DOMAIN dd.streams : dd.streams[i] = dd.frame

\* the outputs enumerated: at most MaxSideData side data records in all,
\* nothing recorded about a video stream or a first frame that does not
\* exist, and a first frame that is a frame of the video stream when there
\* is one
ProbeOutputs ==
    {dd \in AllProbeOutputs :
        /\ FrameOfAStream(dd)
        /\ dd.frame = "audio" => \A i \in DOMAIN dd.streams : dd.streams[i] # "video"
        /\ Cardinality(dd.sd[1]) + Cardinality(dd.sd[2]) <= MaxSideData
        /\ \A l \in 1..2 : "md" \notin dd.sd[l] => dd.mdok[l]
        /\ dd.nframes = 0 => dd.sd[2] = {}
        /\ (\A i \in DOMAIN dd.streams : dd.streams[i] # "video") => dd.sd[1] = {} /\ ~dd.yuv}

\* the outputs enumerated by the audio specification: no side data, up to
\* MaxOpus audio streams, a first frame of any of the streams
AudioProbeOutputs ==
    {dd \in [streams : StreamListsUpTo(MaxOpus),
             nframes : 0..MaxFrames,
             frame   : {"none", "video", "audio"},
             yuv     : BOOLEAN,
             sd      : {[l \in 1..2 |-> {}]},
             mdok    : {[l \in 1..2 |-> TRUE]}] : FrameOfAStream(dd)}

NoProbe == [streams |-> <<>>, nframes |-> 0, frame |-> "none", yuv |-> FALSE,
            sd |-> [l \in 1..2 |-> {}], mdok |-> [l \in 1..2 |-> TRUE]]

AudioStreams(dd) == SelectSeq(dd.streams, LAMBDA x : x = "audio")
HasVideo(dd) == \E i \in DOMAIN dd.streams : dd.streams[i] = "video"

\* result.e of ff_xtract / ff_inject when the tool exited with code 0
JsNull == "<null>"

\* if (x) on a string or null: true exactly when x is a non-empty string
Truthy(e) == e \notin {"", JsNull}

----------------------------------------------------------------------------
(* Initial state: main() before its first statement. *)

NoPre == [pos |-> 0, done |-> {}, out |-> <<>>]
NoPost == [k |-> 0, currentFile |-> NULL, newTemp |-> NULL, inj |-> <<>>]
NoArg == [f |-> "none"]
NoRet == [k |-> "none"]

Init ==
    /\ pc = "start"
    /\ opts \in Options
    /\ d = NoProbe
    /\ paths = [temp |-> NULL, dv |-> NULL, plus |-> NULL, audio_temp |-> <<>>]
    /\ names = 0
    /\ files = {}
    /\ created = {}
    /\ alive = {}
    /\ spawned = <<>>
    /\ exited = {}
    /\ bufsOut = 0
    /\ pre = NoPre
    /\ post = NoPost
    /\ ai = 0
    /\ aud_tags = <<>>
    /\ mkv_args = <<>>
    /\ ci = 0
    /\ reported = "none"
    /\ exitStatus = NoStatus
    /\ stageLog = <<>>
    /\ arg = NoArg
    /\ ret = NoRet

----------------------------------------------------------------------------
(* Helpers of the program *)

\* generate_temp_name: the n-th name generated in a run.  The random suffix
\* is modelled as fresh: no two names of one run are equal.
generate_temp_name(n) == n + 1

\* mutant of ContentCheck: the check of d.frames.length is missing
ContentCheck_NoFrameCheck(dd) ==
    IF Len(dd.streams) < 1 THEN "No streams were found in the file"
    ELSE IF ~HasVideo(dd) THEN "No video stream was found in the file"
    ELSE "ok"

\* the content checks of main(): the error passed to err(), or "ok"
ContentCheck(dd) ==
    IF Len(dd.streams) < 1 THEN "No streams were found in the file"
    ELSE IF ~HasVideo(dd) THEN "No video stream was found in the file"
    ELSE IF dd.nframes < 1 THEN "No frames were found in the video stream"
    ELSE "ok"

\* parse_pix_fmt throws unless the format string contains "yuv"
PixFmtThrows(dd) == ~dd.yuv

\* what ff_xtract and ff_inject resolve with when the awaited tool exits
\* with code c having written text e to its stderr
ToolResult(c, e) == [c |-> c, e |-> IF c = 0 THEN JsNull ELSE e]

\* the test pre_hdr and post_hdr make on that result: if (result.e)
ResultFailed(result) == Truthy(result.e)

\* mutant of CodeFailed: the exit code is not looked at
CodeFailed_Ignored(c) == FALSE

\* the test main() makes on the value transcode() and opus_transcode()
\* resolve with: if (code !== 0)
CodeFailed(c) == c # 0

\* mutant of MkvFailed: the exit code of mkvmerge is not looked at
MkvFailed_Ignored(c) == FALSE

\* the test of mkvmerge()'s exit listener: if (c !== 0)
MkvFailed(c) == c # 0

\* mutant of OpusLoopTest: the loop runs whether or not --opus was given
OpusLoopTest_IgnoresOption(i, dd) == i <= Len(AudioStreams(dd))

\* main(): if (opts.opus) for (let i = 0; i < audio_streams.length; i++),
\* with i counted from 1
OpusLoopTest(i, dd) == opts.opus /\ i <= Len(AudioStreams(dd))

\* mutant of AudTag: every tag set is built from the first audio stream
AudTag_FromFirstStream(i) == 1

\* main() lines 692-718: aud_extra_tags is built from audio_streams[i]; a
\* tag set is modelled by the audio stream it was built from
AudTag(i) == i

\* mutant of CleanupTargets: the loop over paths.audio_temp is missing
CleanupTargets_VideoOnly(p) == <<p.temp>>

\* the temp files main() deletes after a successful merge, in order
CleanupTargets(p) == <<p.temp>> \o p.audio_temp

\* rm(f) of node:fs/promises: it can succeed only if f exists, and it can
\* reject (ENOENT when f does not exist, or any other I/O error)
RmOutcomes(f) == {ok \in BOOLEAN : ok => f \in files}

\* mutant of AfterRm: the file is gone although rm rejected
AfterRm_RemovedThoughRejected(f, ok) == files \ {f}

\* the files that exist once rm(f) has settled: a rejected rm removed nothing
AfterRm(f, ok) == IF ok THEN files \ {f} ELSE files

ErrExtract(kind) == IF kind = "dv" THEN "Extracting Dolby Vision failed" ELSE "Extracting HDR10+ failed"
ErrInject(kind) == IF kind = "dv" THEN "Injecting HDR (dv) failed" ELSE "Injecting HDR (plus) failed"

\* pre_hdr's scan, run from position pos until it suspends or settles.
\* Position (level - 1) * 4 + s is step s (md, cll, dv, plus) of the loop
\* body for element level of [stream, frame]; 9 is past the loop.
\* Result k: "await" (suspended on ff_xtract at pos), "throw"
\* (parse_master_display threw), "res" (res(out) was called).
PreLevel(pos) == ((pos - 1) \div 4) + 1
PreKind(pos) == PreSteps[((pos - 1) % 4) + 1]

\* mutant of PreHdrRun: the done[] flags are not tested
RECURSIVE PreHdrRun_NoDoneTest(_, _, _, _)
PreHdrRun_NoDoneTest(dd, pos, done, out) ==
    IF pos > 8 THEN [k |-> "res", pos |-> pos, done |-> done, out |-> out]
    ELSE LET level == PreLevel(pos)
             kind == PreKind(pos)
         IN IF dd.sd[level] = {}
            THEN PreHdrRun_NoDoneTest(dd, level * 4 + 1, done, out)
            ELSE IF kind \in dd.sd[level]
            THEN CASE kind = "md" ->
                        IF dd.mdok[level]
                        THEN PreHdrRun_NoDoneTest(dd, pos + 1, done \cup {kind},
                                       Append(out, [arg |-> "--master-display", level |-> level]))
                        ELSE [k |-> "throw", pos |-> pos, done |-> done \cup {kind}, out |-> out]
                   [] kind = "cll" ->
                        PreHdrRun_NoDoneTest(dd, pos + 1, done \cup {kind},
                                  Append(out, [arg |-> "--max-cll", level |-> level]))
                   [] OTHER ->
                        [k |-> "await", pos |-> pos, done |-> done \cup {kind}, out |-> out]
            ELSE PreHdrRun_NoDoneTest(dd, pos + 1, done, out)

RECURSIVE PreHdrRun(_, _, _, _)
PreHdrRun(dd, pos, done, out) ==
    IF pos > 8 THEN [k |-> "res", pos |-> pos, done |-> done, out |-> out]
    ELSE LET level == PreLevel(pos)
             kind == PreKind(pos)
         IN IF dd.sd[level] = {}
            THEN PreHdrRun(dd, level * 4 + 1, done, out)
            ELSE IF kind \in dd.sd[level] /\ kind \notin done
            THEN CASE kind = "md" ->
                        IF dd.mdok[level]
                        THEN PreHdrRun(dd, pos + 1, done \cup {kind},
                                       Append(out, [arg |-> "--master-display", level |-> level]))
                        ELSE [k |-> "throw", pos |-> pos, done |-> done \cup {kind}, out |-> out]
                   [] kind = "cll" ->
                        PreHdrRun(dd, pos + 1, done \cup {kind},
                                  Append(out, [arg |-> "--max-cll", level |-> level]))
                   [] OTHER ->
                        [k |-> "await", pos |-> pos, done |-> done \cup {kind}, out |-> out]
            ELSE PreHdrRun(dd, pos + 1, done, out)

\* the files ff_inject is called with for key k: the sidecar v after
\* --rpu-in / -j, currentFile after -i and newTemp after -o
InjectArgs(k, v, cur, newTemp) == [k |-> k, sidecar |-> v, i |-> cur, o |-> newTemp]

\* a token of mkv_args: an option, or an input file (t says which input)
MkvOpt(t) == [t |-> t, f |-> NULL]
MkvFile(t, f) == [t |-> t, f |-> f]

\* mutant of MkvInputs: --no-audio is pushed whether or not audio was transcoded
MkvInputs_AlwaysNoAudio(p, tags) ==
    <<MkvFile("video", p.temp)>>
        \o [j \in 1..Len(tags) |-> MkvFile("audio", p.audio_temp[j])]
        \o <<MkvOpt("--no-audio"), MkvOpt("--no-video"), MkvFile("source", NULL)>>

\* mkvmerge(): the inputs and track selection options of mkv_args in order
\* (the -o option and the per-track flag options are left out)
MkvInputs(p, tags) ==
    <<MkvFile("video", p.temp)>>
        \o [j \in 1..Len(tags) |-> MkvFile("audio", p.audio_temp[j])]
        \o (IF Len(tags) > 0 THEN <<MkvOpt("--no-audio")>> ELSE <<>>)
        \o <<MkvOpt("--no-video"), MkvFile("source", NULL)>>

\* post_hdr's loop over Object.entries(paths): the first key at or after
\* index from of PostKeys whose path is set, 0 if there is none
NextInject(p, from) ==
    LET S == {i \in from..Len(PostKeys) : p[PostKeys[i]] # NULL}
    IN IF S = {} THEN 0 ELSE CHOOSE i \in S : \A j \in S : i <= j

----------------------------------------------------------------------------
(* Control of main(): each operator is the synchronous run of main() from  *)
(* a point where a promise has just settled to the next await or to the    *)
(* end.  al is the set of live processes and log the stage log at that     *)
(* point.                                                                  *)

Stop(state, e, status, al, log) ==
    /\ pc' = state
    /\ reported' = e
    /\ exitStatus' = status
    /\ alive' = al
    /\ stageLog' = log
    /\ UNCHANGED <<spawned, paths, names, pre, post, ai, aud_tags, mkv_args, ci>>

\* return err(msg), or the catch block's err(e): main() returns normally
\* and nothing sets a completion status, so node exits with 0
Fail(e, al, log) == Stop("failed", e, 0, al, log)

\* main() ran to its end
Finish(al, log) == Stop("done", reported, 0, al, log)

\* an error thrown inside a child's "exit" listener: an uncaught exception,
\* node prints it and terminates with status 1; err() is not called
Crash(al, log) == Stop("crashed", reported, 1, al, log)

\* an error thrown inside the async executor of pre_hdr or post_hdr: the
\* executor's own promise rejects unhandled, res/rej are never called and
\* main() stays suspended on its await; err() is not called.  Node raises
\* the unhandled rejection as an uncaught exception and terminates with
\* status 1.
Hang(al, log) == Stop("hung", reported, 1, al, log)

\* main() lines 676-730: the opus loop from index i, then mkvmerge
AudioContinue(i, pths, pst, al, log) ==
    IF OpusLoopTest(i, d)
    THEN /\ pc' = "audio"
         /\ ai' = i
         /\ aud_tags' = Append(aud_tags, AudTag(i))
         /\ names' = generate_temp_name(names)
         /\ paths' = [pths EXCEPT !.audio_temp = Append(@, generate_temp_name(names))]
         /\ post' = pst
         /\ alive' = al \cup {OpusProc(i)}
         /\ spawned' = Append(spawned, OpusProc(i))
         /\ stageLog' = Append(log, "transcode-audio")
         /\ UNCHANGED <<pre, mkv_args, ci, reported, exitStatus>>
    ELSE /\ pc' = "remux"
         /\ paths' = pths
         /\ post' = pst
         /\ alive' = al \cup {Proc("mkvmerge")}
         /\ spawned' = Append(spawned, Proc("mkvmerge"))
         /\ stageLog' = Append(log, "remux")
         /\ mkv_args' = MkvInputs(pths, aud_tags)
         /\ UNCHANGED <<names, pre, ai, aud_tags, ci, reported, exitStatus>>

\* post_hdr from key index from with currentFile = cur, then main() line 674
PostHdrContinue(cur, from, al, log) ==
    LET i == NextInject(paths, from)
        newTemp == generate_temp_name(names)
    IN IF i # 0
       THEN /\ pc' = "inject"
            /\ names' = newTemp
            /\ post' = [k |-> i, currentFile |-> cur, newTemp |-> newTemp,
                        inj |-> Append(post.inj, InjectArgs(PostKeys[i], paths[PostKeys[i]],
                                                            cur, newTemp))]
            /\ alive' = al \cup {InjectTool(PostKeys[i])}
            /\ spawned' = Append(spawned, InjectTool(PostKeys[i]))
            /\ stageLog' = log
            /\ UNCHANGED <<paths, pre, ai, aud_tags, mkv_args, ci, reported, exitStatus>>
       ELSE AudioContinue(1, [paths EXCEPT !.temp = cur],
                          [post EXCEPT !.currentFile = cur], al, log)

\* main() lines 577-667 once pre_hdr has resolved with r.out
AfterPreHdr(r, al, log) ==
    IF opts.time = "bad"
    THEN Fail("Invalid time format", al, log)
    ELSE /\ pc' = "transcode"
         /\ pre' = [pos |-> r.pos, done |-> r.done, out |-> r.out]
         /\ alive' = al \cup {Proc("ffmpeg_decode"), Proc("x265")}
         /\ spawned' = spawned \o <<Proc("ffmpeg_decode"), Proc("x265")>>
         /\ stageLog' = Append(log, "transcode-video")
         /\ UNCHANGED <<paths, names, post, ai, aud_tags, mkv_args, ci, reported, exitStatus>>

\* pre_hdr after its scan stopped with r, then main()
PreHdrContinue(r, al, log) ==
    CASE r.k = "throw" -> Hang(al, log)
      [] r.k = "await" ->
            LET kind == PreKind(r.pos)
            IN /\ pc' = "pre_hdr"
               /\ pre' = [pos |-> r.pos, done |-> r.done, out |-> r.out]
               /\ names' = generate_temp_name(names)
               /\ paths' = [paths EXCEPT ![kind] = generate_temp_name(names)]
               /\ alive' = al \cup {XtractProducer(kind), XtractTool(kind)}
               /\ spawned' = spawned \o <<XtractProducer(kind), XtractTool(kind)>>
               /\ stageLog' = log
               /\ UNCHANGED <<post, ai, aud_tags, mkv_args, ci, reported, exitStatus>>
      [] OTHER -> AfterPreHdr(r, al, log)

----------------------------------------------------------------------------
(* Actions *)

Exits(p, c) == exited' = exited \cup {[p |-> p, c |-> c]}

\* a tool that exits with 0 has written its output file f; a failing tool
\* may or may not have left one
Writes(f, wrote) ==
    /\ files' = IF wrote THEN files \cup {f} ELSE files
    /\ created' = IF wrote THEN created \cup {f} ELSE created

\* main() up to await run_ffprobe(paths.input)
Start ==
    /\ pc = "start"
    /\ pc' = "probe"
    /\ names' = generate_temp_name(names)
    /\ paths' = [paths EXCEPT !.temp = generate_temp_name(names)]
    /\ alive' = alive \cup {Proc("ffprobe")}
    /\ spawned' = Append(spawned, Proc("ffprobe"))
    /\ stageLog' = Append(stageLog, "probe")
    /\ UNCHANGED <<opts, arg, ret, env, pre, post, ai, aud_tags, mkv_args, ci, reported, exitStatus>>

\* run_ffprobe: proc.stdout.on("data", d => bufsOut.push(d))
ProbeStdoutData ==
    /\ pc = "probe"
    /\ bufsOut < ProbeChunks
    /\ bufsOut' = bufsOut + 1
    /\ UNCHANGED <<opts, arg, ret, d, files, created, exited, ctl>>

\* run_ffprobe's "exit" listener, then main() through the content checks,
\* the argument building and pre_hdr up to its first await
ProbeExitFrom(outputs) ==
    /\ pc = "probe"
    /\ \E c \in ExitCodes, e \in Texts, wellFormed \in BOOLEAN, dd \in outputs :
         LET al == alive \ {Proc("ffprobe")}
         IN /\ Exits(Proc("ffprobe"), c)
            /\ UNCHANGED <<opts, arg, ret, files, created, bufsOut>>
            /\ IF c # 0
               THEN /\ d' = d
                    /\ IF Truthy(e)
                       THEN Fail("Could not parse with ffprobe", al, stageLog)
                       ELSE Fail("TypeError", al, stageLog)
               ELSE IF ~(wellFormed /\ bufsOut = ProbeChunks)
               THEN d' = d /\ Crash(al, stageLog)
               ELSE /\ d' = dd
                    /\ IF ContentCheck(dd) # "ok"
                       THEN Fail(ContentCheck(dd), al, stageLog)
                       ELSE IF PixFmtThrows(dd)
                       THEN Fail("Input must be YUV", al, Append(stageLog, "build-video-args"))
                       ELSE PreHdrContinue(PreHdrRun(dd, 1, {}, <<>>), al,
                                           stageLog \o <<"build-video-args", "extract-hdr">>)

ProbeExit == ProbeExitFrom(ProbeOutputs)

\* the same with the probe outputs of the audio specification
ProbeExitAudio == ProbeExitFrom(AudioProbeOutputs)

\* the ffmpeg producer of a pair exits; no listener is attached to it
ProducerExit ==
    \E p \in alive \cap Producers, c \in ExitCodes :
        /\ alive' = alive \ {p}
        /\ Exits(p, c)
        /\ UNCHANGED <<opts, arg, ret, d, files, created, bufsOut, pc, spawned, paths, names,
                       pre, post, ai, aud_tags, mkv_args, ci, reported, exitStatus, stageLog>>

\* ff_xtract's sec_proc "exit" listener, then pre_hdr and main()
XtractExit ==
    /\ pc = "pre_hdr"
    /\ \E c \in ExitCodes, e \in Texts, wrote \in BOOLEAN :
         LET kind == PreKind(pre.pos)
             al == alive \ {XtractTool(kind)}
         IN /\ c = 0 => wrote
            /\ Exits(XtractTool(kind), c)
            /\ Writes(paths[kind], wrote)
            /\ UNCHANGED <<opts, arg, ret, d, bufsOut>>
            /\ IF ResultFailed(ToolResult(c, e))
               THEN Fail(ErrExtract(kind), al, stageLog)
               ELSE PreHdrContinue(PreHdrRun(d, pre.pos + 1, pre.done, pre.out), al, stageLog)

\* transcode's x265_proc "exit" listener, then main() and post_hdr
X265Exit ==
    /\ pc = "transcode"
    /\ \E c \in ExitCodes, wrote \in BOOLEAN :
         LET al == alive \ {Proc("x265")}
         IN /\ c = 0 => wrote
            /\ Exits(Proc("x265"), c)
            /\ Writes(paths.temp, wrote)
            /\ UNCHANGED <<opts, arg, ret, d, bufsOut>>
            /\ IF CodeFailed(c)
               THEN Fail("Transcode failed", al, stageLog)
               ELSE PostHdrContinue(paths.temp, 1, al, Append(stageLog, "inject-hdr"))

\* ff_inject's "exit" listener, then post_hdr up to await rm(currentFile)
InjectExit ==
    /\ pc = "inject"
    /\ \E c \in ExitCodes, e \in Texts, wrote \in BOOLEAN :
         LET kind == PostKeys[post.k]
             al == alive \ {InjectTool(kind)}
         IN /\ c = 0 => wrote
            /\ Exits(InjectTool(kind), c)
            /\ Writes(post.newTemp, wrote)
            /\ UNCHANGED <<opts, arg, ret, d, bufsOut>>
            /\ IF ResultFailed(ToolResult(c, e))
               THEN Fail(ErrInject(kind), al, stageLog)
               ELSE /\ pc' = "rm_current"
                    /\ alive' = al
                    /\ UNCHANGED <<spawned, paths, names, pre, post, ai, aud_tags, mkv_args, ci,
                                   reported, exitStatus, stageLog>>

\* post_hdr: await rm(currentFile) settles
RmCurrent ==
    /\ pc = "rm_current"
    /\ \E ok \in RmOutcomes(post.currentFile) :
         /\ UNCHANGED <<opts, arg, ret, d, created, exited, bufsOut>>
         /\ files' = AfterRm(post.currentFile, ok)
         /\ IF ok
            THEN /\ pc' = "rm_sidecar"
                 /\ UNCHANGED <<alive, spawned, paths, names, pre, post, ai, aud_tags, mkv_args, ci,
                                reported, exitStatus, stageLog>>
            ELSE Hang(alive, stageLog)

\* post_hdr: await rm(v) settles, then the next entry of paths, then main()
RmSidecar ==
    /\ pc = "rm_sidecar"
    /\ \E ok \in RmOutcomes(paths[PostKeys[post.k]]) :
         /\ UNCHANGED <<opts, arg, ret, d, created, exited, bufsOut>>
         /\ files' = AfterRm(paths[PostKeys[post.k]], ok)
         /\ IF ok
            THEN PostHdrContinue(post.newTemp, post.k + 1, alive, stageLog)
            ELSE Hang(alive, stageLog)

\* opus_transcode's "exit" listener, then the opus loop of main()
OpusExit ==
    /\ pc = "audio"
    /\ \E c \in ExitCodes, wrote \in BOOLEAN :
         LET al == alive \ {OpusProc(ai)}
         IN /\ c = 0 => wrote
            /\ Exits(OpusProc(ai), c)
            /\ Writes(paths.audio_temp[ai], wrote)
            /\ UNCHANGED <<opts, arg, ret, d, bufsOut>>
            /\ IF CodeFailed(c)
               THEN Fail("Opus transcode failed", al, stageLog)
               ELSE AudioContinue(ai + 1, paths, post, al, stageLog)

\* mkvmerge's "exit" listener, then main() up to await rm(paths.temp)
MkvmergeExit ==
    /\ pc = "remux"
    /\ \E c \in ExitCodes :
         LET al == alive \ {Proc("mkvmerge")}
         IN /\ Exits(Proc("mkvmerge"), c)
            /\ UNCHANGED <<opts, arg, ret, d, files, created, bufsOut>>
            /\ IF MkvFailed(c)
               THEN Fail("mkvmerge stderr", al, stageLog)
               ELSE /\ pc' = "cleanup"
                    /\ ci' = 0
                    /\ alive' = al
                    /\ stageLog' = Append(stageLog, "cleanup")
                    /\ UNCHANGED <<spawned, paths, names, pre, post, ai, aud_tags, mkv_args, reported, exitStatus>>

\* main(): one awaited rm of the cleanup settles
CleanupRm ==
    /\ pc = "cleanup"
    /\ LET targets == CleanupTargets(paths)
           f == targets[ci + 1]
       IN \E ok \in RmOutcomes(f) :
            /\ UNCHANGED <<opts, arg, ret, d, created, exited, bufsOut>>
            /\ files' = AfterRm(f, ok)
            /\ IF ~ok
               THEN Fail("rm rejected", alive, stageLog)
               ELSE IF ci + 1 < Len(targets)
               THEN /\ ci' = ci + 1
                    /\ UNCHANGED <<pc, alive, spawned, paths, names, pre, post, ai, aud_tags, mkv_args,
                                   reported, exitStatus, stageLog>>
               ELSE Finish(alive, stageLog)

Next ==
    \/ Start
    \/ ProbeStdoutData
    \/ ProbeExit
    \/ ProducerExit
    \/ XtractExit
    \/ X265Exit
    \/ InjectExit
    \/ RmCurrent
    \/ RmSidecar
    \/ OpusExit
    \/ MkvmergeExit
    \/ CleanupRm

Spec == Init /\ [][Next]_vars

\* Every child process that was spawned exits in the end and every awaited
\* rm settles in the end: the handlers of these events are run when the
\* event comes.
Fairness ==
    /\ WF_vars(Start)
    /\ WF_vars(ProbeStdoutData)
    /\ WF_vars(ProbeExit)
    /\ WF_vars(ProducerExit)
    /\ WF_vars(XtractExit)
    /\ WF_vars(X265Exit)
    /\ WF_vars(InjectExit)
    /\ WF_vars(RmCurrent)
    /\ WF_vars(RmSidecar)
    /\ WF_vars(OpusExit)
    /\ WF_vars(MkvmergeExit)
    /\ WF_vars(CleanupRm)

SpecLive == Init /\ [][Next]_vars /\ Fairness

\* The job on sources without HDR side data and with up to MaxOpus audio
\* streams: no extraction and no injection takes place.
NextAudio ==
    \/ Start
    \/ ProbeStdoutData
    \/ ProbeExitAudio
    \/ ProducerExit
    \/ X265Exit
    \/ OpusExit
    \/ MkvmergeExit
    \/ CleanupRm

SpecAudio == Init /\ [][NextAudio]_vars

----------------------------------------------------------------------------
(* parse_slash_number and parse_master_display.  A string is a sequence of *)
(* characters; a number is NaN, Infinity or a non-negative fraction in     *)
(* lowest terms.                                                           *)

Digits == {"0", "1", "3"}
Chars == Digits \cup {"/", "a"}
Strings(n) == UNION {[1..k -> Chars] : k \in 0..n}

NaN == [k |-> "nan", n |-> 0, d |-> 0]
Infinity == [k |-> "inf", n |-> 0, d |-> 0]

RECURSIVE GCD(_, _)
GCD(a, b) == IF b = 0 THEN a ELSE GCD(b, a % b)

\* the number a/b, b > 0
Num(a, b) == [k |-> "num", n |-> a \div GCD(a, b), d |-> b \div GCD(a, b)]

isNaN(x) == x.k = "nan"

DigitValue(c) == CASE c = "0" -> 0 [] c = "1" -> 1 [] c = "3" -> 3

RECURSIVE Decimal(_)
Decimal(s) ==
    IF s = <<>> THEN 0
    ELSE Decimal(SubSeq(s, 1, Len(s) - 1)) * 10 + DigitValue(s[Len(s)])

\* Number(s) of a string: the empty string converts to 0, a string of
\* decimal digits to its value, any other string over Chars to NaN
Number(s) ==
    IF \A i \in DOMAIN s : s[i] \in Digits THEN Num(Decimal(s), 1) ELSE NaN

\* x / y of two numbers that are not Infinity
Divide(x, y) ==
    IF isNaN(x) \/ isNaN(y) THEN NaN
    ELSE IF y.n = 0 THEN (IF x.n = 0 THEN NaN ELSE Infinity)
    ELSE Num(x.n * y.d, x.d * y.n)

\* input.split("/")
RECURSIVE split(_)
split(s) ==
    LET S == {i \in DOMAIN s : s[i] = "/"}
    IN IF S = {} THEN <<s>>
       ELSE LET i == CHOOSE j \in S : \A l \in S : j <= l
            IN <<SubSeq(s, 1, i - 1)>> \o split(SubSeq(s, i + 1, Len(s)))

\* mutant of parse_slash_number: a third part is not tested for
parse_slash_number_NoLengthTest(input) ==
    LET s == split(input)
    IN IF Len(s) < 2 THEN Number(input)
       ELSE IF isNaN(Number(s[1])) \/ isNaN(Number(s[2])) THEN NaN
       ELSE Divide(Number(s[1]), Number(s[2]))

parse_slash_number(input) ==
    LET s == split(input)
    IN IF Len(s) < 2 THEN Number(input)
       ELSE IF Len(s) > 2 \/ isNaN(Number(s[1])) \/ isNaN(Number(s[2])) THEN NaN
       ELSE Divide(Number(s[1]), Number(s[2]))

\* a field of the record p: absent from the JSON (undefined) or a string
Field(s) == [present |-> TRUE, s |-> s]
Undefined == [present |-> FALSE, s |-> <<>>]

\* !list[i]
Falsy(field) == ~field.present \/ field.s = <<>>

\* the length of list in parse_master_display
FieldCount == 10

\* (i > 7) ? 10000 : 50000, with i counted from 1
Scale(i) == IF i > 8 THEN 10000 ELSE 50000

\* Math.round(num * scale), num not NaN
Round(num, scale) ==
    IF num.k = "inf" THEN Infinity
    ELSE Num((2 * num.n * scale + num.d) \div (2 * num.d), 1)

\* `${o}` of a rounded number
ToStr(o) == IF o.k = "inf" THEN "Infinity" ELSE ToString(o.n)

Thrown == [k |-> "throw", f |-> "none", v |-> NaN, str |-> ""]
Returned(f, v, str) == [k |-> "value", f |-> f, v |-> v, str |-> str]

\* the template literal of parse_master_display
Format(o) ==
    "G(" \o ToStr(o[1]) \o "," \o ToStr(o[2]) \o ")B(" \o ToStr(o[3]) \o "," \o ToStr(o[4])
        \o ")R(" \o ToStr(o[5]) \o "," \o ToStr(o[6]) \o ")WP(" \o ToStr(o[7]) \o ","
        \o ToStr(o[8]) \o ")L(" \o ToStr(o[9]) \o "," \o ToStr(o[10]) \o ")"

parse_master_display(p) ==
    IF \E i \in 1..FieldCount : Falsy(p[i]) \/ isNaN(parse_slash_number(p[i].s))
    THEN [Thrown EXCEPT !.f = "parse_master_display"]
    ELSE Returned("parse_master_display", NaN,
                  Format([i \in 1..FieldCount |->
                             Round(parse_slash_number(p[i].s), Scale(i))]))

\* the records given to parse_master_display: the ten fields of a well
\* formed record with one of them replaced
DefaultField(i) == Field(IF i > 8 THEN <<"1">> ELSE <<"1", "/", "3">>)
FieldValues == {Undefined} \cup {Field(s) : s \in Strings(MaxFieldLen)}
Records ==
    {[i \in 1..FieldCount |-> IF i = j THEN v ELSE DefaultField(i)] :
        j \in 1..FieldCount, v \in FieldValues}

----------------------------------------------------------------------------
(* parse_pix_fmt *)

FmtDigits == {"4", "1"}
FmtChars == {"y", "u", "v", "p"} \cup FmtDigits
FmtStrings(n) == UNION {[1..k -> FmtChars] : k \in 0..n}

\* input.includes("yuv")
IncludesYuv(s) ==
    \E i \in 1..(Len(s) - 2) : s[i] = "y" /\ s[i + 1] = "u" /\ s[i + 2] = "v"

\* s.split(c)
RECURSIVE SplitOn(_, _)
SplitOn(s, c) ==
    LET S == {i \in DOMAIN s : s[i] = c}
    IN IF S = {} THEN <<s>>
       ELSE LET i == CHOOSE j \in S : \A l \in S : j <= l
            IN <<SubSeq(s, 1, i - 1)>> \o SplitOn(SubSeq(s, i + 1, Len(s)), c)

\* s.replace(/\D/g, "")
StripNonDigits(s) == SelectSeq(s, LAMBDA c : c \in FmtDigits)

\* an error thrown by f with message msg
Throws(f, msg) == [Thrown EXCEPT !.f = f, !.str = msg]

\* parse_pix_fmt(input): input.includes of an undefined input and
\* s[1].replace of a string without "p" throw a TypeError
parse_pix_fmt(input) ==
    IF ~input.present THEN Throws("parse_pix_fmt", "TypeError")
    ELSE IF ~IncludesYuv(input.s) THEN Throws("parse_pix_fmt", "Input must be YUV")
    ELSE LET s == SplitOn(input.s, "p")
         IN IF Len(s) < 2 THEN Throws("parse_pix_fmt", "TypeError")
            ELSE Returned("parse_pix_fmt",
                          [csp |-> <<"i">> \o StripNonDigits(s[1]),
                           depth |-> IF StripNonDigits(s[2]) = <<>> THEN <<"8">>
                                     ELSE StripNonDigits(s[2])], "")

PixFmtArgs ==
    {[f |-> "parse_pix_fmt", input |-> <<>>, p |-> <<fld>>] :
        fld \in {Undefined} \cup {Field(s) : s \in FmtStrings(MaxFmtLen)}}

----------------------------------------------------------------------------
(* get_duration *)

\* k.toLowerCase() of a tag key
LowerChar(c) ==
    CASE c = "D" -> "d" [] c = "U" -> "u" [] c = "R" -> "r" [] c = "A" -> "a"
      [] c = "T" -> "t" [] c = "I" -> "i" [] c = "O" -> "o" [] c = "N" -> "n"
      [] OTHER -> c
toLowerCase(k) == [i \in DOMAIN k |-> LowerChar(k[i])]

\* s.startsWith(prefix)
startsWith(s, prefix) ==
    Len(s) >= Len(prefix) /\ SubSeq(s, 1, Len(prefix)) = prefix

DurationWord == <<"d", "u", "r", "a", "t", "i", "o", "n">>

\* the tag keys enumerated: DURATION, Duration-e, language, _duration
TagKeys ==
    {<<"D", "U", "R", "A", "T", "I", "O", "N">>,
     <<"D", "u", "r", "a", "t", "i", "o", "n", "-", "e">>,
     <<"l", "a", "n", "g", "u", "a", "g", "e">>,
     <<"_", "d", "u", "r", "a", "t", "i", "o", "n">>}

\* what get_duration returns: the number made from stream.duration, from
\* the value of the i-th tag or from format.duration, or NaN
FromStream == [src |-> "stream", i |-> 0]
FromTag(i) == [src |-> "tag", i |-> i]
FromFormat == [src |-> "format", i |-> 0]
NoDuration == [src |-> "nan", i |-> 0]

\* the for loop of get_duration from the i-th entry of stream.tags
RECURSIVE TagLoop(_, _, _)
TagLoop(tags, has_format_duration, i) ==
    IF i > Len(tags) THEN NoDuration
    ELSE IF startsWith(toLowerCase(tags[i]), DurationWord) THEN FromTag(i)
    ELSE IF has_format_duration THEN FromFormat
    ELSE TagLoop(tags, has_format_duration, i + 1)

\* get_duration(stream, format); stream.tags is absent or a list of keys
get_duration(stream, format) ==
    IF stream.duration THEN FromStream
    ELSE IF stream.has_tags THEN TagLoop(stream.tags, format.duration, 1)
    ELSE NoDuration

TagLists == UNION {[1..k -> TagKeys] : k \in 0..MaxTags}
DurationStreams ==
    {[duration |-> du, has_tags |-> ht, tags |-> t] :
        du \in BOOLEAN, ht \in BOOLEAN, t \in TagLists}
DurationArgs ==
    {[f |-> "get_duration", stream |-> st, format |-> [duration |-> fd]] :
        st \in {x \in DurationStreams : ~x.has_tags => x.tags = <<>>}, fd \in BOOLEAN}

----------------------------------------------------------------------------
(* main(): the output depth arguments and the deinterlacing arguments *)

\* mutant of DepthArgs: aq-mode is added for every 8 bit input
DepthArgs_AqModeForEvery8Bit(keepBit, depth) ==
    IF keepBit
    THEN <<"--output-depth", depth>> \o (IF depth = "8" THEN <<"--aq-mode", "3">> ELSE <<>>)
    ELSE IF depth = "8" THEN <<"--output-depth", "10", "--aq-mode", "3">>
    ELSE <<"--output-depth", depth>>

\* main() lines 544-558: what is pushed to x265_args for fmt.depth
DepthArgs(keepBit, depth) ==
    IF keepBit
    THEN <<"--output-depth", depth>> \o (IF depth = "8" THEN <<"--aq-mode", "3">> ELSE <<>>)
    ELSE IF depth = "8" THEN <<"--output-depth", "10">>
    ELSE <<"--output-depth", depth>>

DepthValues == {"8", "10", "12", "16"}
DepthArgsInputs ==
    {[f |-> "depth_args", keepBit |-> kb, depth |-> dp] : kb \in BOOLEAN, dp \in DepthValues}

\* fps *= 2
Twice(x) == IF x.k = "num" THEN Num(2 * x.n, x.d) ELSE x

\* stream.field_order && stream.field_order !== "progressive"
Interlaced(field_order) == Truthy(field_order) /\ field_order # "progressive"

\* mutant of InterlaceArgs: the rate is doubled whenever --double-fps is given
InterlaceArgs_DoubleWheneverRequested(field_order, doubleFps, r_frame_rate) ==
    [ff_args |-> IF Interlaced(field_order)
                 THEN <<"-vf", "yadif=" \o (IF doubleFps THEN "1" ELSE "0")>>
                 ELSE <<>>,
     fps |-> IF doubleFps
             THEN Twice(parse_slash_number(r_frame_rate))
             ELSE parse_slash_number(r_frame_rate)]

\* main() lines 615-622: what is pushed to ff_args, and fps
InterlaceArgs(field_order, doubleFps, r_frame_rate) ==
    [ff_args |-> IF Interlaced(field_order)
                 THEN <<"-vf", "yadif=" \o (IF doubleFps THEN "1" ELSE "0")>>
                 ELSE <<>>,
     fps |-> IF Interlaced(field_order) /\ doubleFps
             THEN Twice(parse_slash_number(r_frame_rate))
             ELSE parse_slash_number(r_frame_rate)]

\* field_order as ffprobe prints it, JsNull when the property is absent
FieldOrders == {JsNull, "progressive", "tt", "bb", "tb", "bt", "unknown"}
FrameRates == {<<"3", "0">>, <<"3", "0", "/", "1">>, <<"1", "0", "/", "3">>, <<"0", "/", "0">>}
InterlaceArgsInputs ==
    {[f |-> "interlace_args", field_order |-> fo, doubleFps |-> db, r_frame_rate |-> fr] :
        fo \in FieldOrders, db \in BOOLEAN, fr \in FrameRates}

----------------------------------------------------------------------------
(* main(): the frame count estimate given to transcode() *)

\* x * y of two numbers
Times(x, y) ==
    IF isNaN(x) \/ isNaN(y) THEN NaN
    ELSE IF x.k = "inf" \/ y.k = "inf"
    THEN (IF (x.k = "num" /\ x.n = 0) \/ (y.k = "num" /\ y.n = 0) THEN NaN ELSE Infinity)
    ELSE Num(x.n * y.n, x.d * y.d)

\* Math.ceil(x)
Ceil(x) == IF x.k # "num" THEN x ELSE Num((x.n + x.d - 1) \div x.d, 1)

\* the number get_duration returns when the value it converts is secs
DurationNumber(stream, format, secs) ==
    IF get_duration(stream, format) = NoDuration THEN NaN ELSE Num(secs, 1)

\* main() lines 615-659: fps, duration and totFrames, or the error of the
\* time check of lines 625-628; time is opts.time
FrameEstimate(stream, format, secs, doubleFps, time) ==
    LET fps == InterlaceArgs(stream.field_order, doubleFps, stream.r_frame_rate).fps
        duration == DurationNumber(stream, format, secs)
    IN IF ~Falsy(time) /\ isNaN(Number(time.s))
       THEN Throws("main", "Invalid time format")
       ELSE Returned("frame_estimate",
                     [fps |-> fps, duration |-> duration,
                      totFrames |-> Ceil(Times(IF ~Falsy(time) THEN Number(time.s)
                                                ELSE duration, fps))], "")

\* the streams enumerated: with its own duration, or with neither a
\* duration nor tags
EstimateStreams ==
    {[duration |-> du, has_tags |-> FALSE, tags |-> <<>>, field_order |-> fo,
      r_frame_rate |-> fr] :
        du \in BOOLEAN, fo \in {"progressive", "tt"}, fr \in FrameRates}
FrameEstimateInputs ==
    {[f |-> "frame_estimate", stream |-> st, format |-> [duration |-> fd], secs |-> 3,
      doubleFps |-> db, time |-> t] :
        st \in EstimateStreams, fd \in BOOLEAN, db \in BOOLEAN,
        t \in {Undefined, Field(<<"3">>), Field(<<"a">>)}}

----------------------------------------------------------------------------
(* main(): x265_args *)

\* the string made of a sequence of characters
RECURSIVE Str(_)
Str(s) == IF s = <<>> THEN "" ELSE s[1] \o Str(Tail(s))

\* COLOR_RANGE[color_range]: a property the object does not have is undefined
COLOR_RANGE(color_range) ==
    CASE color_range = "pc" -> "full"
      [] color_range = "tv" -> "limited"
      [] OTHER -> "undefined"

\* main() lines 560-572; a property the stream does not have is JsNull
ColorArgs(stream) ==
    (IF Truthy(stream.range) THEN <<"--range", COLOR_RANGE(stream.color_range)>> ELSE <<>>)
        \o (IF Truthy(stream.color_primaries)
            THEN <<"--colorprim", stream.color_primaries>> ELSE <<>>)
        \o (IF Truthy(stream.color_transfer)
            THEN <<"--transfer", stream.color_transfer>> ELSE <<>>)
        \o (IF Truthy(stream.color_space)
            THEN <<"--colormatrix", stream.color_space>> ELSE <<>>)

\* mutant of QualityAndOutput: the output path is pushed before the preset
\* and the quality
QualityAndOutput_OutputFirst(preset, crf, temp) ==
    <<"--output", temp, "--preset", preset, "--crf", crf>>

\* main() lines 608-612
QualityAndOutput(preset, crf, temp) ==
    <<"--preset", preset, "--crf", crf, "--output", temp>>

\* main() lines 642-648: the loop over opts.args.split(":") from piece i
RECURSIVE UserPairs(_, _)
UserPairs(pieces, i) ==
    IF i > Len(pieces) THEN <<>>
    ELSE LET ss == SplitOn(pieces[i], "=")
         IN (IF Len(ss) # 2 THEN <<>> ELSE <<"--" \o Str(ss[1]), Str(ss[2])>>)
                \o UserPairs(pieces, i + 1)

\* main() lines 640-649; args is opts.args
UserArgs(args) == IF Falsy(args) THEN <<>> ELSE UserPairs(SplitOn(args.s, ":"), 1)

\* main() lines 534-649: x265_args as given to transcode(); temp_args is
\* what pre_hdr resolved with, temp is paths.temp
X265Args(keepBit, depth, stream, temp_args, preset, crf, temp, args) ==
    <<"--input", "-", "--y4m">>
        \o DepthArgs(keepBit, depth)
        \o ColorArgs(stream)
        \o temp_args
        \o QualityAndOutput(preset, crf, temp)
        \o UserArgs(args)

ArgChars == {"a", "=", ":"}
ArgStrings(n) == UNION {[1..k -> ArgChars] : k \in 0..n}

\* the colour properties of a stream; ffprobe prints color_range, a range
\* property is printed by no known build of it
ColorStreams ==
    [range : {JsNull, "tv"}, color_range : {JsNull, "pc", "tv"},
     color_primaries : {JsNull, "bt2020"}, color_transfer : {JsNull, "smpte2084"},
     color_space : {JsNull, "bt2020nc"}]

\* what pre_hdr resolves with
MasterDisplayArgs == <<"--master-display", "G(1,1)B(1,1)R(1,1)WP(1,1)L(1,1)">>
MaxCllArgs == <<"--max-cll", "1000,400">>
TempArgs == {<<>>, MasterDisplayArgs, MaxCllArgs, MasterDisplayArgs \o MaxCllArgs}

\* the calls enumerated: every -o string with one stream, and every stream
\* with and without one -o pair
X265ArgsInputs ==
    {[f |-> "x265_args", keepBit |-> FALSE, depth |-> "8",
      stream |-> [range |-> JsNull, color_range |-> "tv", color_primaries |-> "bt2020",
                  color_transfer |-> JsNull, color_space |-> JsNull],
      temp_args |-> MasterDisplayArgs \o MaxCllArgs,
      preset |-> "medium", crf |-> "23", temp |-> ".hdrsucks-1.hevc", args |-> a] :
        a \in {Undefined} \cup {Field(x) : x \in ArgStrings(MaxArgsLen)}}
    \cup
    {[f |-> "x265_args", keepBit |-> kb, depth |-> dp, stream |-> st, temp_args |-> ta,
      preset |-> "medium", crf |-> "23", temp |-> ".hdrsucks-1.hevc", args |-> a] :
        kb \in BOOLEAN, dp \in {"8", "10"}, st \in ColorStreams, ta \in TempArgs,
        a \in {Undefined, Field(<<"a", "=", "a">>)}}

----------------------------------------------------------------------------
(* The arguments given to the functions *)

ParseArgs ==
    {[f |-> "parse_slash_number", input |-> s, p |-> <<>>] : s \in Strings(MaxLen)}
        \cup {[f |-> "parse_master_display", input |-> <<>>, p |-> r] : r \in Records}
        \cup PixFmtArgs

InitParse ==
    /\ pc = "start"
    /\ opts = [opus |-> FALSE, time |-> "none"]
    /\ d = NoProbe
    /\ paths = [temp |-> NULL, dv |-> NULL, plus |-> NULL, audio_temp |-> <<>>]
    /\ names = 0
    /\ files = {}
    /\ created = {}
    /\ alive = {}
    /\ spawned = <<>>
    /\ exited = {}
    /\ bufsOut = 0
    /\ pre = NoPre
    /\ post = NoPost
    /\ ai = 0
    /\ aud_tags = <<>>
    /\ mkv_args = <<>>
    /\ ci = 0
    /\ reported = "none"
    /\ exitStatus = NoStatus
    /\ stageLog = <<>>
    /\ \/ arg \in ParseArgs
       \/ arg \in DurationArgs
       \/ arg \in DepthArgsInputs
       \/ arg \in InterlaceArgsInputs
       \/ arg \in FrameEstimateInputs
       \/ arg \in X265ArgsInputs
    /\ ret = NoRet

CallParseSlashNumber ==
    /\ arg.f = "parse_slash_number"
    /\ ret.k = "none"
    /\ ret' = Returned("parse_slash_number", parse_slash_number(arg.input), "")
    /\ UNCHANGED <<arg, opts, env, ctl>>

CallParseMasterDisplay ==
    /\ arg.f = "parse_master_display"
    /\ ret.k = "none"
    /\ ret' = parse_master_display(arg.p)
    /\ UNCHANGED <<arg, opts, env, ctl>>

CallParsePixFmt ==
    /\ arg.f = "parse_pix_fmt"
    /\ ret.k = "none"
    /\ ret' = parse_pix_fmt(arg.p[1])
    /\ UNCHANGED <<arg, opts, env, ctl>>

CallGetDuration ==
    /\ arg.f = "get_duration"
    /\ ret.k = "none"
    /\ ret' = Returned("get_duration", get_duration(arg.stream, arg.format), "")
    /\ UNCHANGED <<arg, opts, env, ctl>>

\* main() lines 544-558
PushDepthArgs ==
    /\ arg.f = "depth_args"
    /\ ret.k = "none"
    /\ ret' = Returned("depth_args", DepthArgs(arg.keepBit, arg.depth), "")
    /\ UNCHANGED <<arg, opts, env, ctl>>

\* main() lines 615-622
PushInterlaceArgs ==
    /\ arg.f = "interlace_args"
    /\ ret.k = "none"
    /\ ret' = Returned("interlace_args",
                       InterlaceArgs(arg.field_order, arg.doubleFps, arg.r_frame_rate), "")
    /\ UNCHANGED <<arg, opts, env, ctl>>

\* main() lines 615-659
EstimateFrames ==
    /\ arg.f = "frame_estimate"
    /\ ret.k = "none"
    /\ ret' = FrameEstimate(arg.stream, arg.format, arg.secs, arg.doubleFps, arg.time)
    /\ UNCHANGED <<arg, opts, env, ctl>>

\* main() lines 534-649
BuildX265Args ==
    /\ arg.f = "x265_args"
    /\ ret.k = "none"
    /\ ret' = Returned("x265_args",
                       X265Args(arg.keepBit, arg.depth, arg.stream, arg.temp_args,
                                arg.preset, arg.crf, arg.temp, arg.args), "")
    /\ UNCHANGED <<arg, opts, env, ctl>>

NextParse ==
    \/ CallParseSlashNumber
    \/ CallParseMasterDisplay
    \/ CallParsePixFmt
    \/ CallGetDuration
    \/ PushDepthArgs
    \/ PushInterlaceArgs
    \/ EstimateFrames
    \/ BuildX265Args

SpecParse == InitParse /\ [][NextParse]_vars

----------------------------------------------------------------------------
(* transcode(): the "data" listener of x265's stderr.  x265 writes lines;  *)
(* a chunk delivered to the listener is a sequence of pieces: complete     *)
(* progress lines, complete other lines, and at its ends the parts of a    *)
(* progress line cut inside the pattern, which hold no occurrence of it.   *)

WindowSize == 500
Rates == {0, 1, 2}

Match(fps) == [t |-> "match", fps |-> fps]
OtherLine == [t |-> "other", fps |-> 0]
HeadPart == [t |-> "head", fps |-> 0]
TailPart == [t |-> "tail", fps |-> 0]
Pieces == {Match(r) : r \in Rates} \cup {OtherLine, HeadPart, TailPart}

\* the progress lines completed by the pieces 1..i of a chunk
Completed(chunk, i) ==
    Cardinality({j \in 1..i : chunk[j].t \in {"match", "tail"}})

\* X265_REGEX.exec(l.toString()): the first occurrence in the chunk, 0 if
\* there is none
FirstMatch(chunk) ==
    LET S == {i \in DOMAIN chunk : chunk[i].t = "match"}
    IN IF S = {} THEN 0 ELSE CHOOSE i \in S : \A j \in S : i <= j

\* the loop of average_of: arr[lo] + ... + arr[hi], added up by halves
RECURSIVE SumOf(_, _, _)
SumOf(arr, lo, hi) ==
    IF lo > hi THEN 0
    ELSE IF lo = hi THEN arr[lo]
    ELSE LET mid == (lo + hi) \div 2
         IN SumOf(arr, lo, mid) + SumOf(arr, mid + 1, hi)

\* average_of(arr), the quotient kept as sum / len
average_of(arr) == [sum |-> SumOf(arr, 1, Len(arr)), len |-> Len(arr)]

\* Math.round((frames - doneFrames) / avg_)
Eta(frames, doneFrames, avg_) ==
    IF avg_.sum = 0
    THEN [k |-> IF frames = doneFrames THEN "nan" ELSE "inf", n |-> 0]
    ELSE [k |-> "int",
          n |-> (2 * (frames - doneFrames) * avg_.len + avg_.sum) \div (2 * avg_.sum)]

\* a % b of JavaScript, b > 0
JsRem(a, b) == IF a >= 0 THEN a % b ELSE 0 - ((0 - a) % b)

\* v < 10 ? "0" + v : v
Pad(v) == IF v < 10 THEN "0" \o ToString(v) ELSE ToString(v)

\* toHHMMSS(secs): parseInt of Infinity and of NaN is NaN, and NaN < 10 is
\* false
toHHMMSS(secs) ==
    IF secs.k # "int" THEN "NaN:NaN:NaN"
    ELSE Pad(secs.n \div 3600) \o ":" \o Pad(JsRem(secs.n \div 60, 60))
            \o ":" \o Pad(JsRem(secs.n, 60))

\* mutant of WindowFull: the oldest sample is dropped one sample late
WindowFull_OneLate(avg) == Len(avg) = WindowSize + 1

\* avg.length === 500
WindowFull(avg) == Len(avg) = WindowSize

\* the listener's state before the first chunk: avg = [], nothing shown;
\* sent counts the progress lines x265 has written to the end, pending says
\* that the first part of a line was delivered, hist is the sequence of the
\* samples pushed so far
NoProgress ==
    [k |-> "progress", avg |-> <<>>, avg_ |-> [sum |-> 0, len |-> 0], n |-> 0,
     doneFrames |-> 0, eta |-> "", hist |-> <<>>, sent |-> 0, pending |-> FALSE]

\* the listener on one chunk
X265StderrData(st, frames, chunk) ==
    LET i == FirstMatch(chunk)
        env_ == [st EXCEPT !.sent = @ + Completed(chunk, Len(chunk)),
                           !.pending = chunk[Len(chunk)].t = "head"]
    IN IF i = 0 THEN env_
       ELSE LET fps == chunk[i].fps
                avg == Append(IF WindowFull(st.avg) THEN Tail(st.avg) ELSE st.avg, fps)
                doneFrames == st.sent + Completed(chunk, i)
            IN [env_ EXCEPT !.avg = avg,
                            !.avg_ = average_of(avg),
                            !.n = @ + 1,
                            !.doneFrames = doneFrames,
                            !.eta = toHHMMSS(Eta(frames, doneFrames, average_of(avg))),
                            !.hist = Append(@, fps)]

\* the chunks that can follow: a tail part comes first exactly when a head
\* part is pending, a head part comes last
ChunksAfter(pending) ==
    {c \in UNION {[1..k -> Pieces] : k \in 1..MaxPieces} :
        /\ \A j \in DOMAIN c : c[j].t = "tail" <=> (j = 1 /\ pending)
        /\ \A j \in DOMAIN c : c[j].t = "head" => j = Len(c)}

\* the runs: "window" runs write one progress line per chunk, at rate A up
\* to line k and at rate B after it; "lines" runs write any pieces
SwitchPoints == {0, 1, WindowSize - 1, WindowSize, WindowSize + 1}
WindowRuns ==
    {[f |-> "transcode", mode |-> "window", frames |-> 2 * WindowSize,
      A |-> a, B |-> b, k |-> k] : a \in {1, 2}, b \in {1, 2}, k \in SwitchPoints}
LinesRuns ==
    {[f |-> "transcode", mode |-> "lines", frames |-> fr, A |-> 0, B |-> 0, k |-> 0] :
        fr \in {2, 7200}}

InitProgress ==
    /\ pc = "transcode"
    /\ opts = [opus |-> FALSE, time |-> "none"]
    /\ d = NoProbe
    /\ paths = [temp |-> NULL, dv |-> NULL, plus |-> NULL, audio_temp |-> <<>>]
    /\ names = 0
    /\ files = {}
    /\ created = {}
    /\ alive = {}
    /\ spawned = <<>>
    /\ exited = {}
    /\ bufsOut = 0
    /\ pre = NoPre
    /\ post = NoPost
    /\ ai = 0
    /\ aud_tags = <<>>
    /\ mkv_args = <<>>
    /\ ci = 0
    /\ reported = "none"
    /\ exitStatus = NoStatus
    /\ stageLog = <<>>
    /\ arg \in WindowRuns \cup LinesRuns
    /\ ret = NoProgress

\* x265 writes its next progress line and the listener gets it as one chunk
WindowData ==
    /\ arg.mode = "window"
    /\ ret.sent < WindowSize + Overrun
    /\ ret' = X265StderrData(ret, arg.frames,
                             <<Match(IF ret.sent + 1 <= arg.k THEN arg.A ELSE arg.B)>>)
    /\ UNCHANGED <<arg, opts, env, ctl>>

\* the listener gets a chunk of lines and parts of lines
LinesData ==
    /\ arg.mode = "lines"
    /\ \E chunk \in ChunksAfter(ret.pending) :
         /\ ret.sent + Completed(chunk, Len(chunk)) <= MaxLines
         /\ ret' = X265StderrData(ret, arg.frames, chunk)
    /\ UNCHANGED <<arg, opts, env, ctl>>

NextProgress == WindowData \/ LinesData

SpecProgress == InitProgress /\ [][NextProgress]_vars

----------------------------------------------------------------------------
(* Vocabulary of the properties *)

Terminal == pc \in {"done", "failed", "hung", "crashed"}
Spawned(p) == p \in Range(spawned)
TimesSpawned(p) == Cardinality({i \in DOMAIN spawned : spawned[i] = p})
StageIndex(name) == CHOOSE i \in DOMAIN Stages : Stages[i] = name

\* the processes whose exit a stage awaits (every process but the producers)
Awaited == {x \in exited : x.p \notin Producers}

\* JSON.parse of the probe output succeeded
Parsed == ExitedWith(Proc("ffprobe"), 0) /\ pc # "crashed"

\* the message main() reports when the stage awaiting p fails
ErrorOf(p) ==
    CASE p.t = "ffprobe" -> "Could not parse with ffprobe"
      [] p.t \in {"ffmpeg_copy_dv", "dovi_extract"} -> ErrExtract("dv")
      [] p.t \in {"ffmpeg_copy_plus", "hdr10plus_extract"} -> ErrExtract("plus")
      [] p.t \in {"ffmpeg_decode", "x265"} -> "Transcode failed"
      [] p.t = "dovi_inject" -> ErrInject("dv")
      [] p.t = "hdr10plus_inject" -> ErrInject("plus")
      [] p.t = "ffmpeg_opus" -> "Opus transcode failed"
      [] p.t = "mkvmerge" -> "mkvmerge stderr"

----------------------------------------------------------------------------
(* C1..C10 *)

\* C1: the stages start only in the order probe, build-video-args,
\* extract-hdr, transcode-video, inject-hdr, transcode-audio (zero or more
\* times), remux, cleanup, and a stage starts only after its predecessor has
\* completed successfully: no awaited process of an earlier stage is still
\* running or has exited with a non-zero code.
C1_StagesInOrderAfterSuccess ==
    /\ \A i, j \in DOMAIN stageLog :
         i < j => \/ StageIndex(stageLog[i]) < StageIndex(stageLog[j])
                  \/ stageLog[i] = "transcode-audio" /\ stageLog[j] = "transcode-audio"
    /\ \A x \in Awaited : \A j \in DOMAIN stageLog :
         StageIndex(stageLog[j]) > StageOf(x.p) => x.c = 0
    /\ \A p \in alive \ Producers : StageOf(p) = StageIndex(stageLog[Len(stageLog)])

\* C2: after the first stage failure the job is in the failed state with
\* that failure's error reported, and no process of a later stage has been
\* spawned.
C2_FirstFailureHalts ==
    \A x \in Awaited :
        x.c # 0 => /\ pc = "failed"
                   /\ reported = ErrorOf(x.p)
                   /\ \A q \in Range(spawned) : StageOf(q) <= StageOf(x.p)

\* C3: when ffprobe exits non-zero the job has failed at the probe stage
\* with the probe error, and ffprobe is the only process ever spawned.
C3_ProbeFailureIsProbeError ==
    (\E x \in exited : x.p = Proc("ffprobe") /\ x.c # 0)
        => /\ pc = "failed"
           /\ reported = "Could not parse with ffprobe"
           /\ Range(spawned) = {Proc("ffprobe")}

\* C4: a job that ends in the failed state gives a non-zero completion
\* status; status 0 is given only by a successful job.
C4_FailureExitsNonZero ==
    /\ pc = "failed" => exitStatus \notin {0, NoStatus}
    /\ exitStatus = 0 => pc = "done"

\* C5: when the job has ended successfully no temp file written during the
\* run still exists.
C5_SuccessLeavesNoTempFile ==
    pc = "done" => \A f \in created : f \notin files

\* a successful job with both sidecars, two injections and an opus track
C5_Witness ==
    /\ pc = "done"
    /\ ExitedWith(Proc("dovi_inject"), 0)
    /\ ExitedWith(Proc("hdr10plus_inject"), 0)
    /\ Len(paths.audio_temp) >= 1
    /\ Cardinality(created) >= 6

\* C6: an extraction or the video transcode has been started only if the
\* probe result has a video stream and a frame; a parsed result without
\* them makes the job fail with the matching content error.
C6_ExtractAndTranscodeNeedVideoAndFrame ==
    /\ (\E p \in Range(spawned) : StageOf(p) \in {3, 4}) => HasVideo(d) /\ d.nframes >= 1
    /\ (Parsed /\ ~(HasVideo(d) /\ d.nframes >= 1))
          => /\ pc = "failed"
             /\ reported \in {"No streams were found in the file",
                             "No video stream was found in the file",
                             "No frames were found in the video stream"}
             /\ Range(spawned) = {Proc("ffprobe")}

\* a probe result with a video stream and no frame has been rejected
C6_Witness ==
    /\ Parsed
    /\ HasVideo(d)
    /\ d.nframes = 0
    /\ reported = "No frames were found in the video stream"

\* C7: main() is suspended on transcode() exactly while x265 runs (the
\* decoder's exit does not resolve it); what it acts on is x265's exit code:
\* non-zero aborts the job with the transcode error, x265 is not spawned
\* again and nothing of a later stage is spawned; zero never reports the
\* transcode error.
C7_TranscodeYieldsConsumerCode ==
    /\ pc = "transcode" <=> Proc("x265") \in alive
    /\ ExitedWith(Proc("x265"), 1)
          => /\ pc = "failed"
             /\ reported = "Transcode failed"
             /\ \A q \in Range(spawned) : StageOf(q) <= 4
    /\ ExitedWith(Proc("x265"), 0) => reported # "Transcode failed"
    /\ TimesSpawned(Proc("x265")) <= 1

\* x265 failed although the decoder had exited with 0
C7_Witness ==
    /\ ExitedWith(Proc("x265"), 1)
    /\ ExitedWith(Proc("ffmpeg_decode"), 0)
    /\ pc = "failed"

\* C8: once the transcode pair has terminated, if the decoder or the
\* encoder exited non-zero the job has failed with the transcode error and
\* neither an injection nor the remux has been started.
C8_EitherTranscodeProcessFailureAborts ==
    (/\ HasExited(Proc("x265"))
     /\ ExitedWith(Proc("ffmpeg_decode"), 1) \/ ExitedWith(Proc("x265"), 1))
        => /\ pc = "failed"
           /\ reported = "Transcode failed"
           /\ \A q \in Range(spawned) : StageOf(q) <= 4

\* C9: once the side tool of an extraction has exited, if it or the
\* stream-copy producer exited non-zero the job has failed with that
\* extraction's error and the video transcode has not been started.
C9_EitherExtractProcessFailureAborts ==
    \A kind \in {"dv", "plus"} :
        (/\ HasExited(XtractTool(kind))
         /\ ExitedWith(XtractProducer(kind), 1) \/ ExitedWith(XtractTool(kind), 1))
            => /\ pc = "failed"
               /\ reported = ErrExtract(kind)
               /\ ~Spawned(Proc("x265"))

\* C10: when an inject tool has exited non-zero the job has failed with the
\* injection error, the elementary stream and the sidecar that were the
\* inputs of that injection have not been deleted, paths.temp still names
\* the encoder's output and the remux has not been started.
C10_InjectFailureKeepsInputs ==
    \A i \in DOMAIN PostKeys :
        ExitedWith(InjectTool(PostKeys[i]), 1)
            => /\ pc = "failed"
               /\ reported = ErrInject(PostKeys[i])
               /\ post.k = i
               /\ post.currentFile \in created => post.currentFile \in files
               /\ paths[PostKeys[i]] \in created => paths[PostKeys[i]] \in files
               /\ paths.temp = generate_temp_name(0)
               /\ ~Spawned(Proc("mkvmerge"))

----------------------------------------------------------------------------
(* C11..C17 *)

\* the position of the first spawn of p in the order of spawning
SpawnIndex(p) == CHOOSE i \in DOMAIN spawned : spawned[i] = p

\* C11: when the job holds both a Dolby Vision and an HDR10+ sidecar and the
\* HDR10+ injection has been started, the Dolby Vision injection was started
\* before it and has already exited, the two are never alive together, and
\* the elementary stream the HDR10+ injection reads is the one the Dolby
\* Vision injection was told to write (which exists when that injection
\* exited with 0).
C11_DvInjectionBeforePlusInjection ==
    (paths.dv # NULL /\ paths.plus # NULL /\ Spawned(InjectTool("plus")))
        => /\ Spawned(InjectTool("dv"))
           /\ SpawnIndex(InjectTool("dv")) < SpawnIndex(InjectTool("plus"))
           /\ HasExited(InjectTool("dv"))
           /\ InjectTool("dv") \notin alive
           /\ Len(post.inj) = 2
           /\ post.inj[1].k = "dv" /\ post.inj[2].k = "plus"
           /\ post.inj[1].sidecar = paths.dv /\ post.inj[2].sidecar = paths.plus
           /\ post.inj[2].i = post.inj[1].o
           /\ ExitedWith(InjectTool("dv"), 0) => post.inj[2].i \in created

C11_Witness ==
    /\ pc = "inject"
    /\ paths.dv # NULL /\ paths.plus # NULL
    /\ ExitedWith(InjectTool("dv"), 0)
    /\ InjectTool("plus") \in alive

\* the injections of post.inj that exited with 0
OkInjections == {j \in DOMAIN post.inj : ExitedWith(InjectTool(post.inj[j].k), 0)}

\* C12: once post_hdr has moved past an injection that exited with 0 (a
\* later injection or the remux has been started), that injection's input
\* elementary stream and its sidecar no longer exist; and the elementary
\* stream handed to the remux is the output of the last injection that
\* exited with 0, or the encoder's output when no injection was run.
C12_RemuxGetsLastSuccessfulInjection ==
    /\ \A j \in OkInjections :
          (j < Len(post.inj) \/ Spawned(Proc("mkvmerge")))
              => /\ post.inj[j].i \notin files
                 /\ post.inj[j].sidecar \notin files
    /\ Spawned(Proc("mkvmerge"))
          => IF post.inj = <<>>
             THEN mkv_args[1] = MkvFile("video", generate_temp_name(0))
             ELSE /\ OkInjections # {}
                  /\ LET last == CHOOSE j \in OkInjections : \A l \in OkInjections : l <= j
                     IN mkv_args[1] = MkvFile("video", post.inj[last].o)

\* the metadata kind an encoder argument is made from
KindOfArg(a) == IF a = "--master-display" THEN "md" ELSE "cll"

\* the level pre_hdr takes a kind from: the stream (1) when the stream
\* carries it, otherwise the first frame (2)
LevelOf(kind) == IF kind \in d.sd[1] THEN 1 ELSE 2

\* C13: each of the two encoder arguments is added at most once and each
\* extraction is started at most once; the argument or the extraction is
\* made from the stream-level record when the stream carries the kind and
\* from the first-frame-level record otherwise.
C13_AtMostOneRecordPerKind ==
    /\ \A a \in {"--master-display", "--max-cll"} :
          Cardinality({j \in DOMAIN pre.out : pre.out[j].arg = a}) <= 1
    /\ \A j \in DOMAIN pre.out :
          /\ KindOfArg(pre.out[j].arg) \in d.sd[pre.out[j].level]
          /\ pre.out[j].level = LevelOf(KindOfArg(pre.out[j].arg))
    /\ \A kind \in {"dv", "plus"} :
          /\ TimesSpawned(XtractTool(kind)) <= 1
          /\ TimesSpawned(XtractProducer(kind)) <= 1
    /\ pc = "pre_hdr"
          => /\ PreKind(pre.pos) \in d.sd[PreLevel(pre.pos)]
             /\ PreLevel(pre.pos) = LevelOf(PreKind(pre.pos))

\* a kind present at both levels has been acted on, at the stream level
C13_Witness ==
    /\ pc = "transcode"
    /\ \E kind \in Kinds : kind \in d.sd[1] /\ kind \in d.sd[2]
    /\ \/ /\ "dv" \in d.sd[1] /\ "dv" \in d.sd[2]
          /\ TimesSpawned(XtractTool("dv")) = 1
       \/ /\ "md" \in d.sd[1] /\ "md" \in d.sd[2]
          /\ \E j \in DOMAIN pre.out : pre.out[j] = [arg |-> "--master-display", level |-> 1]

\* the process that reads the pipe a producer writes
ConsumerOf(p) ==
    CASE p = XtractProducer("dv") -> XtractTool("dv")
      [] p = XtractProducer("plus") -> XtractTool("plus")
      [] p = Proc("ffmpeg_decode") -> Proc("x265")

\* C14: at most two subprocesses of the job are alive, and a producer is
\* alive only while its consumer is: none is left running after the exit of
\* its consumer, so none runs when a later subprocess is spawned.
C14_AtMostTwoAlive ==
    /\ Cardinality(alive) <= 2
    /\ \A p \in alive \cap Producers : ConsumerOf(p) \in alive

\* the audio transcodes in the order they were started
OpusSpawns == SelectSeq(spawned, LAMBDA p : p.t = "ffmpeg_opus")

\* C15: in a job that ended successfully the audio transcodes started are
\* those of the audio streams 1..n in that order, once each, when --opus was
\* given, and none when it was not; at most one audio transcode is alive at
\* a time; and the transcode of a stream is started only when the transcode
\* of the stream before it has exited with 0.
C15_OneOpusTranscodePerAudioStream ==
    /\ pc = "done"
          => OpusSpawns = [i \in 1..(IF opts.opus THEN Len(AudioStreams(d)) ELSE 0)
                              |-> OpusProc(i)]
    /\ Cardinality({p \in alive : p.t = "ffmpeg_opus"}) <= 1
    /\ \A i \in 1..Len(spawned) :
          Spawned(OpusProc(i + 1))
              => /\ ExitedWith(OpusProc(i), 0)
                 /\ ~ExitedWith(OpusProc(i), 1)
                 /\ SpawnIndex(OpusProc(i)) < SpawnIndex(OpusProc(i + 1))

C15_Witness ==
    /\ pc = "done"
    /\ opts.opus
    /\ Len(AudioStreams(d)) = 2
    /\ OpusSpawns = <<OpusProc(1), OpusProc(2)>>

\* C16: a job that ended successfully has started mkvmerge exactly once; its
\* input arguments are the video elementary stream, then the transcoded
\* audio files in stream order, then --no-audio exactly when there is at
\* least one transcoded audio file, then --no-video and the source file.
C16_MkvmergeInputs ==
    /\ pc = "done" => TimesSpawned(Proc("mkvmerge")) = 1
    /\ TimesSpawned(Proc("mkvmerge")) <= 1
    /\ Spawned(Proc("mkvmerge"))
          => LET n == Len(paths.audio_temp)
                 m == Len(mkv_args)
             IN /\ mkv_args[1] = MkvFile("video", paths.temp)
                /\ \A j \in 1..n : mkv_args[1 + j] = MkvFile("audio", paths.audio_temp[j])
                /\ aud_tags = [j \in 1..n |-> j]
                /\ \A j \in 1..(n - 1) : paths.audio_temp[j] < paths.audio_temp[j + 1]
                /\ m = 1 + n + (IF n >= 1 THEN 1 ELSE 0) + 2
                /\ mkv_args[m - 1] = MkvOpt("--no-video")
                /\ mkv_args[m] = MkvFile("source", NULL)
                /\ (n >= 1) => mkv_args[n + 2] = MkvOpt("--no-audio")
                /\ (n = 0) => \A j \in 1..m : mkv_args[j] # MkvOpt("--no-audio")

\* a successful job that passed two transcoded audio files
C16_Witness ==
    /\ pc = "done"
    /\ Len(paths.audio_temp) = 2
    /\ mkv_args[4] = MkvOpt("--no-audio")

\* C17: when mkvmerge has exited non-zero the job has failed with the text
\* mkvmerge wrote, the cleanup has not been started and every temp video
\* and audio file that was written still exists.
C17_MkvmergeFailureSkipsCleanup ==
    ExitedWith(Proc("mkvmerge"), 1)
        => /\ pc = "failed"
           /\ reported = "mkvmerge stderr"
           /\ \A j \in DOMAIN stageLog : stageLog[j] # "cleanup"
           /\ \A j \in DOMAIN CleanupTargets(paths) :
                 CleanupTargets(paths)[j] \in created => CleanupTargets(paths)[j] \in files

C17_Witness ==
    /\ ExitedWith(Proc("mkvmerge"), 1)
    /\ paths.temp \in files
    /\ Len(paths.audio_temp) = 1
    /\ paths.audio_temp[1] \in files

----------------------------------------------------------------------------
(* C18..C20 *)

\* a numeric string: one or more decimal digits
IsNumeric(s) == s # <<>> /\ \A i \in DOMAIN s : s[i] \in Digits
SlashCount(s) == Cardinality({i \in DOMAIN s : s[i] = "/"})
SlashAt(s) == CHOOSE i \in DOMAIN s : s[i] = "/"
\* the N and the D of a string with one "/"
Numerator(s) == SubSeq(s, 1, SlashAt(s) - 1)
Denominator(s) == SubSeq(s, SlashAt(s) + 1, Len(s))
\* the string is "N/D" with numeric N and D
IsFraction(s) ==
    SlashCount(s) = 1 /\ IsNumeric(Numerator(s)) /\ IsNumeric(Denominator(s))
\* N divided by D in floating point
Quotient(s) == Divide(Num(Decimal(Numerator(s)), 1), Num(Decimal(Denominator(s)), 1))

ParsedSlashNumber == ret.k = "value" /\ ret.f = "parse_slash_number"

\* C18: parse_slash_number of "N/D" with numeric N and D is N divided by D,
\* of a numeric string without "/" is its value, and of every other string
\* is NaN.
C18_RationalParsing ==
    ParsedSlashNumber
        => IF IsFraction(arg.input) THEN ret.v = Quotient(arg.input)
           ELSE IF SlashCount(arg.input) = 0 /\ IsNumeric(arg.input)
           THEN ret.v = Num(Decimal(arg.input), 1)
           ELSE isNaN(ret.v)

IsRational(field) ==
    /\ field.present
    /\ \/ IsNumeric(field.s)
       \/ IsFraction(field.s) /\ ~isNaN(Quotient(field.s))
RationalValue(field) ==
    IF IsFraction(field.s) THEN Quotient(field.s) ELSE Num(Decimal(field.s), 1)

\* C20: parse_master_display of a record whose ten fields are present and
\* parse as rationals returns G(..)B(..)R(..)WP(..)L(..) with the first
\* eight values times 50000 and the last two times 10000, rounded; of a
\* record with a missing or non-numeric field it throws and returns no
\* string.
C20_MasteringDisplayTranslation ==
    (ret.k # "none" /\ ret.f = "parse_master_display")
        => IF \A i \in 1..10 : IsRational(arg.p[i])
           THEN /\ ret.k = "value"
                /\ ret.str = Format([i \in 1..10 |->
                                Round(RationalValue(arg.p[i]),
                                      IF i <= 8 THEN 50000 ELSE 10000)])
           ELSE ret.k = "throw" /\ ret.str = ""

----------------------------------------------------------------------------
(* C27, C28, C30: the probe and the mastering display record in the job *)

\* C27: when ffprobe has exited with 0 and its output, read to the end, was
\* not parsed, the job has failed with the probe error reported by main()
\* and ffprobe is the only subprocess that was started.
C27_UnparsableProbeOutputIsProbeError ==
    (ExitedWith(Proc("ffprobe"), 0) /\ bufsOut = ProbeChunks /\ ~Parsed)
        => /\ pc = "failed"
           /\ reported = "Could not parse with ffprobe"
           /\ spawned = <<Proc("ffprobe")>>

\* the mastering display record pre_hdr selects has a missing or non-numeric
\* field
BadMasteringDisplay ==
    /\ HasVideo(d)
    /\ "md" \in d.sd[LevelOf("md")]
    /\ ~d.mdok[LevelOf("md")]

\* the messages of the failures that can come before pre_hdr reaches the
\* mastering display record
EarlierFailures ==
    {"No frames were found in the video stream", "Input must be YUV",
     ErrExtract("dv"), ErrExtract("plus")}

\* C28: a job whose selected mastering display record is malformed starts no
\* video transcode, and when it has ended it has failed; unless an earlier
\* failure was reported, the error reported is the validation error of
\* parse_master_display, and no extraction was started at or after the level
\* of the record.
C28_MalformedMasteringDisplayFailsJob ==
    BadMasteringDisplay
        => /\ ~Spawned(Proc("x265"))
           /\ Terminal => pc = "failed"
           /\ (Terminal /\ reported \notin EarlierFailures)
                 => /\ reported = "this wrong"
                    /\ \A kind \in {"dv", "plus"} :
                          Spawned(XtractTool(kind)) => LevelOf(kind) < LevelOf("md")

\* C30: when ffprobe has exited with 0, every chunk it wrote to its stdout
\* has been delivered to the "data" listener, so the text handed to
\* JSON.parse is the whole output.
C30_ProbeOutputReadBeforeParse ==
    ExitedWith(Proc("ffprobe"), 0) => bufsOut = ProbeChunks

----------------------------------------------------------------------------
(* C21 *)

\* the part of a format string before its first "p", and the part between
\* the first "p" and the next one
BeforeP(s) == SplitOn(s, "p")[1]
AfterP(s) == IF Len(SplitOn(s, "p")) < 2 THEN <<>> ELSE SplitOn(s, "p")[2]
OnlyDigits(s) == SelectSeq(s, LAMBDA c : c \in {"4", "1"})

\* C21: parse_pix_fmt of a string that contains "yuv" returns csp = "i" and
\* the digits before the "p", and depth = the digits after the "p" or "8"
\* when there are none; of every other input it throws the error "Input
\* must be YUV" and no other error.
C21_PixelFormatTranslation ==
    (ret.k # "none" /\ ret.f = "parse_pix_fmt")
        => IF arg.p[1].present /\ IncludesYuv(arg.p[1].s)
           THEN /\ ret.k = "value"
                /\ ret.v.csp = <<"i">> \o OnlyDigits(BeforeP(arg.p[1].s))
                /\ ret.v.depth = IF OnlyDigits(AfterP(arg.p[1].s)) = <<>> THEN <<"8">>
                                 ELSE OnlyDigits(AfterP(arg.p[1].s))
           ELSE ret.k = "throw" /\ ret.str = "Input must be YUV"

----------------------------------------------------------------------------
(* C22..C24 *)

\* the entries of a tag list whose key starts with "duration" in any case
DurationTags(tags) ==
    {i \in DOMAIN tags :
        /\ Len(tags[i]) >= 8
        /\ [j \in 1..8 |-> LowerChar(tags[i][j])] = <<"d", "u", "r", "a", "t", "i", "o", "n">>}

\* C22: get_duration returns the stream's duration when the stream has one;
\* otherwise the value of a tag whose key starts with "duration" when the
\* stream has such a tag, at any position; otherwise the duration of the
\* format when it has one, also when the stream has no tags; and NaN only
\* when none of the three exists.
C22_DurationResolution ==
    (ret.k = "value" /\ ret.f = "get_duration")
        => IF arg.stream.duration THEN ret.v = FromStream
           ELSE IF arg.stream.has_tags /\ DurationTags(arg.stream.tags) # {}
           THEN ret.v.src = "tag" /\ ret.v.i \in DurationTags(arg.stream.tags)
           ELSE IF arg.format.duration THEN ret.v = FromFormat
           ELSE ret.v = NoDuration

\* the number of times token t is in the argument list a
Occurrences(a, t) == Cardinality({i \in DOMAIN a : a[i] = t})

\* C23: for depth "8" without --keep-bit the arguments pushed are output
\* depth 10 and no aq-mode; for depth "8" with --keep-bit output depth 8 and
\* aq-mode 3; for every other depth the depth itself and no aq-mode, with
\* or without the option; --output-depth is pushed exactly once.
C23_OutputDepthPolicy ==
    (ret.k = "value" /\ ret.f = "depth_args")
        => /\ Occurrences(ret.v, "--output-depth") = 1
           /\ ret.v[1] = "--output-depth"
           /\ (arg.depth = "8" /\ ~arg.keepBit)
                 => ret.v[2] = "10" /\ Occurrences(ret.v, "--aq-mode") = 0
           /\ (arg.depth = "8" /\ arg.keepBit)
                 => ret.v = <<"--output-depth", "8", "--aq-mode", "3">>
           /\ arg.depth # "8"
                 => ret.v[2] = arg.depth /\ Occurrences(ret.v, "--aq-mode") = 0

C23_Witness ==
    /\ ret.k = "value" /\ ret.f = "depth_args"
    /\ arg.depth = "8" /\ ~arg.keepBit
    /\ ret.v = <<"--output-depth", "10">>

\* C24: when field_order is present and not "progressive", -vf yadif=1 is
\* pushed when --double-fps was given and -vf yadif=0 when it was not, and
\* fps is twice the parsed r_frame_rate exactly when --double-fps was given;
\* when field_order is absent or "progressive" nothing is pushed and fps is
\* the parsed r_frame_rate.
C24_DeinterlaceAndRate ==
    (ret.k = "value" /\ ret.f = "interlace_args")
        => LET interlaced == arg.field_order \notin {JsNull, "progressive"}
               rate == parse_slash_number(arg.r_frame_rate)
               doubled == interlaced /\ arg.doubleFps
           IN /\ ret.v.ff_args = IF ~interlaced THEN <<>>
                                 ELSE IF arg.doubleFps THEN <<"-vf", "yadif=1">>
                                 ELSE <<"-vf", "yadif=0">>
              /\ ret.v.fps.k = rate.k
              /\ rate.k = "num"
                    => ret.v.fps.n * rate.d = (IF doubled THEN 2 ELSE 1) * rate.n * ret.v.fps.d

C24_Witness ==
    /\ ret.k = "value" /\ ret.f = "interlace_args"
    /\ arg.field_order = "tt" /\ arg.doubleFps
    /\ arg.r_frame_rate = <<"3", "0">>
    /\ ret.v.ff_args = <<"-vf", "yadif=1">>
    /\ ret.v.fps = Num(60, 1)

----------------------------------------------------------------------------
(* C25, C26, C29: the progress listener *)

\* C25: the rate window never holds more than 500 samples; it holds the
\* most recent min(n, 500) of the n samples pushed, in the order they came;
\* and when more than 500 samples were pushed, all of the same rate R, the
\* mean of the window is R.
C25_RateWindow ==
    ret.k = "progress"
        => /\ Len(ret.avg) <= 500
           /\ Len(ret.avg) = (IF ret.n < 500 THEN ret.n ELSE 500)
           /\ Len(ret.hist) = ret.n
           /\ \A i \in 1..Len(ret.avg) :
                 ret.avg[i] = ret.hist[Len(ret.hist) - Len(ret.avg) + i]
           /\ \A R \in Rates :
                 (ret.n > 500 /\ \A j \in DOMAIN ret.hist : ret.hist[j] = R)
                     => ret.avg_.sum = R * ret.avg_.len

\* the window is full, the oldest samples of rate A were dropped and the
\* newest samples are of another rate B
C25_Witness ==
    /\ ret.k = "progress"
    /\ ret.n = 502
    /\ arg.k = 500 /\ arg.A # arg.B
    /\ Len(ret.avg) = 500
    /\ ret.avg[1] = arg.A /\ ret.avg[498] = arg.A
    /\ ret.avg[499] = arg.B /\ ret.avg[500] = arg.B

\* HH:MM:SS of a number of seconds
TwoDigits(v) == IF v < 10 THEN "0" \o ToString(v) ELSE ToString(v)
Clock(e) ==
    TwoDigits(e \div 3600) \o ":" \o TwoDigits((e \div 60) % 60) \o ":" \o TwoDigits(e % 60)

\* C26: after every sample the time remaining shown is (frames - done
\* frames) divided by the mean of the window, rounded to the nearest whole
\* number of seconds, as HH:MM:SS with two-digit fields and minutes and
\* seconds from 00 to 59.
C26_EtaDisplay ==
    (ret.k = "progress" /\ ret.n > 0)
        => /\ ret.avg_.sum > 0
           /\ LET e == (2 * (arg.frames - ret.doneFrames) * ret.avg_.len + ret.avg_.sum)
                           \div (2 * ret.avg_.sum)
              IN /\ e >= 0
                 /\ e \div 3600 <= 99
                 /\ ret.eta = Clock(e)

\* C29: a chunk adds as many samples, and as many updates of the display,
\* as it completes progress lines, and a chunk that completes none leaves
\* the window and the display as they were.
C29_OneSamplePerProgressLine ==
    [][ret.k = "progress"
          => /\ ret'.n - ret.n = ret'.sent - ret.sent
             /\ Len(ret'.hist) - Len(ret.hist) = ret'.sent - ret.sent
             /\ ret'.sent = ret.sent
                   => /\ ret'.avg = ret.avg
                      /\ ret'.eta = ret.eta
                      /\ ret'.doneFrames = ret.doneFrames]_vars

----------------------------------------------------------------------------
(* C31..C40 *)

\* C31: the frame rate and the duration that enter the estimate of the
\* total number of frames given to transcode() (and from there the ETA) are
\* never the not-a-number sentinel: a sentinel is detected before it is used.
C31_SentinelNeverUsed ==
    (ret.k = "value" /\ ret.f = "frame_estimate")
        => /\ ~isNaN(ret.v.fps)
           /\ Falsy(arg.time) => ~isNaN(ret.v.duration)
           /\ ~isNaN(ret.v.totFrames)

\* the names of the tokens made from the probe result and from the preset
\* and quality options
BuiltNames ==
    {"--output-depth", "--aq-mode", "--range", "--colorprim", "--transfer",
     "--colormatrix", "--master-display", "--max-cll", "--preset", "--crf"}

\* the number of pieces of a -o string, cut at ":", that hold exactly one "="
PairCount(args) ==
    IF Falsy(args) THEN 0
    ELSE LET s == args.s
             Cuts == {0, Len(s) + 1} \cup {i \in DOMAIN s : s[i] = ":"}
         IN Cardinality({b \in Cuts \X Cuts :
                /\ b[1] < b[2]
                /\ \A c \in Cuts : ~(b[1] < c /\ c < b[2])
                /\ Cardinality({i \in (b[1] + 1)..(b[2] - 1) : s[i] = "="}) = 1})

\* C32 as stated: the output path token is the last token of x265_args.
C32_OutputPathIsLast ==
    (ret.k = "value" /\ ret.f = "x265_args")
        => /\ ret.v[Len(ret.v) - 1] = "--output"
           /\ ret.v[Len(ret.v)] = arg.temp

\* C32 as amended: the output path token comes after every pixel format,
\* colour, HDR, preset and quality token; the tokens after it are the
\* user-supplied ones, two for each piece of the -o string that holds
\* exactly one "=", so it is the last token exactly when there is no such
\* piece.
C32_OutputPathBeforeUserTokensOnly ==
    (ret.k = "value" /\ ret.f = "x265_args")
        => \E k \in 1..(Len(ret.v) - 1) :
              /\ ret.v[k] = "--output"
              /\ ret.v[k + 1] = arg.temp
              /\ \A i \in 1..Len(ret.v) : ret.v[i] \in BuiltNames => i < k
              /\ {"--output-depth", "--preset", "--crf"} \subseteq {ret.v[i] : i \in 1..(k - 1)}
              /\ \A j \in DOMAIN arg.temp_args : \E i \in 1..(k - 1) : ret.v[i] = arg.temp_args[j]
              /\ Len(ret.v) - (k + 1) = 2 * PairCount(arg.args)
              /\ (Len(ret.v) = k + 1) <=> (PairCount(arg.args) = 0)

\* two user-supplied pairs follow the output path, colour and HDR tokens
\* come before it
C32_Witness ==
    /\ ret.k = "value" /\ ret.f = "x265_args"
    /\ arg.args = Field(<<"a", "=", "a", ":", "a", "a", "=">>)
    /\ Len(ret.v) = 21
    /\ ret.v[16] = "--output"
    /\ SubSeq(ret.v, 18, 21) = <<"--a", "a", "--aa", "">>
    /\ ret.v[6] = "--colorprim" /\ ret.v[8] = "--master-display"

\* C39: when the video stream carries a colour range, pc or tv, x265_args
\* holds --range followed by full or limited, as it holds --colorprim,
\* --transfer and --colormatrix with their values when the stream carries
\* those.
C39_ColorRangeTranslated ==
    (ret.k = "value" /\ ret.f = "x265_args")
        => /\ arg.stream.color_range \in {"pc", "tv"}
                => \E i \in 1..(Len(ret.v) - 1) :
                      /\ ret.v[i] = "--range"
                      /\ ret.v[i + 1] = (IF arg.stream.color_range = "pc"
                                         THEN "full" ELSE "limited")
           /\ arg.stream.color_primaries # JsNull
                => \E i \in 1..(Len(ret.v) - 1) :
                      ret.v[i] = "--colorprim" /\ ret.v[i + 1] = arg.stream.color_primaries
           /\ arg.stream.color_transfer # JsNull
                => \E i \in 1..(Len(ret.v) - 1) :
                      ret.v[i] = "--transfer" /\ ret.v[i + 1] = arg.stream.color_transfer
           /\ arg.stream.color_space # JsNull
                => \E i \in 1..(Len(ret.v) - 1) :
                      ret.v[i] = "--colormatrix" /\ ret.v[i + 1] = arg.stream.color_space

\* C33: the step that takes the job to the failed state, and every step
\* taken in the failed state, deletes no temp file: the files that existed
\* when the failure was detected exist in the failed state.
C33_FailureDeletesNothing == [][pc' = "failed" => files \subseteq files']_vars

\* the job failed at the Dolby Vision injection and left the encoder's
\* output and the sidecar behind
C33_Witness ==
    /\ pc = "failed"
    /\ reported = ErrInject("dv")
    /\ {paths.temp, paths.dv} \subseteq files

\* the fields of paths that name one temp file each
PathFields == {"temp", "dv", "plus"}

\* C34: in the failed state every one of paths.temp, paths.dv and
\* paths.plus that is not null names a temp file that exists; a field whose
\* file was deleted by the stage that consumed it, or was never written,
\* is null.
C34_NonNullPathIsLeakedFile ==
    pc = "failed" => \A k \in PathFields : paths[k] # NULL => paths[k] \in files

\* C35: an extraction or an injection whose side tool exited with a code
\* other than 0 has made the job fail with that step's error, whatever the
\* tool wrote to its stderr; one whose tool exited with 0 has not.
C35_SideToolFailureByExitCode ==
    \A kind \in {"dv", "plus"} :
        /\ ExitedWith(XtractTool(kind), 1) => pc = "failed" /\ reported = ErrExtract(kind)
        /\ ExitedWith(InjectTool(kind), 1) => pc = "failed" /\ reported = ErrInject(kind)
        /\ ExitedWith(XtractTool(kind), 0) => reported # ErrExtract(kind)
        /\ ExitedWith(InjectTool(kind), 0) => reported # ErrInject(kind)

\* C36: when every child process exits in the end and every rm settles in
\* the end, the job reaches the end of main() or the failed state with the
\* error reported; main() never stays suspended on a promise that is never
\* settled.
C36_JobReachesTerminalState == <>(pc \in {"done", "failed"})

\* the errors main() reports for an input it rejects
ValidationErrors ==
    {"No streams were found in the file", "No video stream was found in the file",
     "No frames were found in the video stream", "Input must be YUV", "Invalid time format"}

\* C37: when main() has reported an input validation error, ffprobe is the
\* only process that was ever spawned and no temp file was ever written.
C37_ValidationBeforeAnyOtherProcess ==
    reported \in ValidationErrors
        => /\ Range(spawned) = {Proc("ffprobe")}
           /\ created = {}

\* pre_hdr has been called with <<stream, d.frames[0]>>
Scanned == \E i \in DOMAIN stageLog : stageLog[i] = "extract-hdr"

\* C38: the frame whose side data pre_hdr scans is a frame of the video
\* stream, not of an audio stream of the file.
C38_ScannedFrameIsVideoFrame == Scanned => d.frame = "video"

\* the audio transcodes that exited with 0
OpusDone == {p \in Range(spawned) : p.t = "ffmpeg_opus" /\ ExitedWith(p, 0)}

\* C40: when mkvmerge has been started, aud_tags and paths.audio_temp have
\* the same length, the number of audio transcodes that exited with 0, and
\* the j-th tag set was built from audio stream j, whose transcode exited
\* with 0 and wrote the j-th path of paths.audio_temp.
C40_TagSetsMatchAudioPaths ==
    Spawned(Proc("mkvmerge"))
        => /\ Len(aud_tags) = Len(paths.audio_temp)
           /\ Len(aud_tags) = Cardinality(OpusDone)
           /\ \A j \in DOMAIN aud_tags :
                 /\ aud_tags[j] = j
                 /\ OpusProc(j) \in OpusDone
                 /\ paths.audio_temp[j] \in created
                 /\ \A l \in DOMAIN paths.audio_temp :
                       l # j => paths.audio_temp[l] # paths.audio_temp[j]

\* mkvmerge runs on two transcoded audio streams
C40_Witness ==
    /\ pc = "remux"
    /\ Len(aud_tags) = 2
    /\ Cardinality(OpusDone) = 2
    /\ Range(paths.audio_temp) \subseteq files

====
